---- MODULE Spec2Model ----
(***************************************************************************)
(* Model of nodes/surface-dial.js: the Surface Dial node.  The closure     *)
(* variables device, pollTimer, prevButtonState and closing are the        *)
(* program state; every other variable is the world around them: the HID   *)
(* handles the node has opened, the interval timers it has armed, what it  *)
(* sent to the host (node.status, node.send, done), and what the next      *)
(* HID enumeration/open would yield.  One action is one callback run to    *)
(* completion (JavaScript callbacks are serial).                           *)
(***************************************************************************)
EXTENDS Integers, Sequences, FiniteSets, TLC

\* ---------------------------------------------------------------- bounds
MaxHandles == 3      \* handles HID.HID may hand out in one run
MaxSent    == 2      \* node.send calls recorded in one run
MaxClose   == 2      \* 'close' events delivered to the node
MaxLate    == 1      \* callbacks a handle delivers after close() (SpecLate only)

\* ------------------------------------------------------- program constants
REPORT_ID   == 1     \* the report id parseReport accepts
MIN_REPORT  == 4     \* the shortest report parseReport accepts
INT16_MAX   == 32767
INT16_WRAP  == 65536

NULL == 0            \* JavaScript null for device and pollTimer

VARIABLES
    device,          \* let device: a handle id, or NULL
    pollTimer,       \* let pollTimer: an interval id, or NULL
    prevButtonState, \* let prevButtonState
    closing,         \* let closing
    started,         \* the constructor has reached waitForDevice() (line 155)
    opened,          \* number of handles new HID.HID has returned: ids 1..opened
    closeCalls,      \* closeCalls[h]: times close() was called on handle h
    listeners,       \* handles on which startEventLoop attached 'data'/'error'
    errored,         \* handles whose stream has reported its error
    timers,          \* interval ids scheduled and not cleared
    timersMade,      \* number of setInterval calls: ids 1..timersMade
    statuses,        \* texts passed to node.status, in order
    sent,            \* messages passed to node.send, in order
    sentBy,          \* sentBy[i]: the handle whose 'data' listener sent sent[i]
    doneCalls,       \* times done() was invoked
    hid,             \* what the next HID.devices / new HID.HID would do
    appeared,        \* hid has been other than "absent" at some time so far
    lateCalls,       \* callbacks delivered by handles after their close()
    closeThrew,      \* device.close() threw in the callback that ran last
    last             \* the callback that ran last, with its argument

vars == <<device, pollTimer, prevButtonState, closing, started, opened, closeCalls,
          listeners, errored, timers, timersMade, statuses, sent, sentBy, doneCalls, hid,
          appeared, lateCalls, closeThrew, last>>

Handles == 1..MaxHandles

\* "absent": HID.devices returns [] ; "enumfail": HID.devices throws ;
\* "openfail": new HID.HID throws ; "ok": new HID.HID returns a handle
HidOutcomes == {"absent", "enumfail", "openfail", "ok"}

\* The reports the transport delivers in the model: valid and invalid ones,
\* both button levels, both rotation signs and the int16 boundary.
Reports ==
    { <<1, 0, 0, 0>>, <<1, 1, 0, 0>>, <<1, 1, 5, 0>>, <<1, 0, 255, 255>>,
      <<1, 2, 0, 128>>, <<1, 3, 255, 127>>, <<1, 1, 5, 0, 9>>,
      <<0, 1, 1, 0>>, <<2, 0, 1, 0>>, <<1, 1, 1>>, <<>> }

\* ------------------------------------------------------------- arithmetic
RECURSIVE BitAnd(_, _)
BitAnd(a, b) ==
    IF a = 0 \/ b = 0 THEN 0
    ELSE (a % 2) * (b % 2) + 2 * BitAnd(a \div 2, b \div 2)

RECURSIVE BitOr(_, _)
BitOr(a, b) ==
    IF a = 0 THEN b
    ELSE IF b = 0 THEN a
    ELSE (IF a % 2 = 1 \/ b % 2 = 1 THEN 1 ELSE 0) + 2 * BitOr(a \div 2, b \div 2)

ShiftLeft(a, n) == a * 2^n

\* data[i] of a Buffer (0-based)
Byte(data, i) == data[i + 1]

\* ---------------------------------------------------------------- handles
IsOpen(h) == h \in 1..opened /\ closeCalls[h] = 0
OpenHandles == {h \in Handles : IsOpen(h)}

\* connectDevice that returns the handle although new HID.HID threw
connectDeviceOpenFailLeaks ==
    CASE hid = "absent"   -> NULL
      [] hid = "enumfail" -> NULL
      [] hid = "openfail" -> opened + 1
      [] hid = "ok"       -> opened + 1

\* connectDevice(): the handle it returns, or NULL
connectDevice ==
    CASE hid = "absent"   -> NULL
      [] hid = "enumfail" -> NULL
      [] hid = "openfail" -> NULL
      [] hid = "ok"       -> opened + 1

\* a call of connectDevice stays within the handles of the model
HandleBudget == hid = "ok" => opened < MaxHandles

\* ----------------------------------------------------------- parseReport
buttonPressed(data) == BitAnd(Byte(data, 1), 1) # 0

\* rotation with the sign test one off (>= for >)
rotationOffByOne(data) ==
    LET raw == BitOr(Byte(data, 2), ShiftLeft(Byte(data, 3), 8))
    IN  IF raw >= INT16_MAX THEN raw - INT16_WRAP ELSE raw

rotation(data) ==
    LET raw == BitOr(Byte(data, 2), ShiftLeft(Byte(data, 3), 8))
    IN  IF raw > INT16_MAX THEN raw - INT16_WRAP ELSE raw

ButtonMsgs(data, prev) ==
    IF buttonPressed(data) # prev
    THEN << [topic |-> "button",
             payload |-> IF buttonPressed(data) THEN "pressed" ELSE "released"] >>
    ELSE << >>

RotationMsgs(data) ==
    IF rotation(data) # 0
    THEN << [topic |-> "rotation",
             payload |-> IF rotation(data) > 0 THEN "clockwise" ELSE "counter-clockwise"] >>
    ELSE << >>

\* parseReport that does not store the new button level
parseReportNoUpdate(data, prev) ==
    IF Len(data) < MIN_REPORT THEN [msgs |-> << >>, button |-> prev]
    ELSE IF Byte(data, 0) # REPORT_ID THEN [msgs |-> << >>, button |-> prev]
    ELSE [msgs   |-> ButtonMsgs(data, prev) \o RotationMsgs(data),
          button |-> prev]

\* parseReport that does not check the report id
parseReportNoIdCheck(data, prev) ==
    IF Len(data) < MIN_REPORT THEN [msgs |-> << >>, button |-> prev]
    ELSE [msgs   |-> ButtonMsgs(data, prev) \o RotationMsgs(data),
          button |-> IF buttonPressed(data) # prev THEN buttonPressed(data) ELSE prev]

\* parseReport that handles the rotation before the button
parseReportRotationFirst(data, prev) ==
    IF Len(data) < MIN_REPORT THEN [msgs |-> << >>, button |-> prev]
    ELSE IF Byte(data, 0) # REPORT_ID THEN [msgs |-> << >>, button |-> prev]
    ELSE [msgs   |-> RotationMsgs(data) \o ButtonMsgs(data, prev),
          button |-> IF buttonPressed(data) # prev THEN buttonPressed(data) ELSE prev]

\* parseReport(data) with prevButtonState = prev: the messages sent, in order,
\* and the prevButtonState it leaves
parseReport(data, prev) ==
    IF Len(data) < MIN_REPORT THEN [msgs |-> << >>, button |-> prev]
    ELSE IF Byte(data, 0) # REPORT_ID THEN [msgs |-> << >>, button |-> prev]
    ELSE [msgs   |-> ButtonMsgs(data, prev) \o RotationMsgs(data),
          button |-> IF buttonPressed(data) # prev THEN buttonPressed(data) ELSE prev]

\* ------------------------------------------------------------------- Init
Init ==
    /\ device = NULL
    /\ pollTimer = NULL
    /\ prevButtonState = FALSE
    /\ closing = FALSE
    /\ started = FALSE
    /\ opened = 0
    /\ closeCalls = [h \in Handles |-> 0]
    /\ listeners = {}
    /\ errored = {}
    /\ timers = {}
    /\ timersMade = 0
    /\ statuses = << >>
    /\ sent = << >>
    /\ sentBy = << >>
    /\ doneCalls = 0
    /\ hid \in HidOutcomes
    /\ appeared = (hid # "absent")
    /\ lateCalls = 0
    /\ closeThrew = FALSE
    /\ last = [op |-> "init", h |-> NULL, data |-> << >>]

\* ------------------------------------------------------------ subroutines
\* startEventLoop() after device := dev
startEventLoop(dev) ==
    listeners' = IF dev = NULL \/ closing THEN listeners ELSE listeners \cup {dev}

\* waitForDevice(), entered with `stat` the statuses emitted so far
waitForDevice(stat) ==
    IF closing
    THEN /\ UNCHANGED <<device, pollTimer, opened, listeners, timers, timersMade>>
         /\ statuses' = stat
    ELSE LET dev == connectDevice IN
         /\ device' = dev
         /\ opened' = IF dev # NULL THEN dev ELSE opened
         /\ startEventLoop(dev)
         /\ IF dev # NULL
            THEN /\ statuses' = Append(stat, "connected")
                 /\ UNCHANGED <<pollTimer, timers, timersMade>>
            ELSE /\ statuses' = Append(stat, "waiting...")
                 /\ timersMade' = timersMade + 1
                 /\ pollTimer' = timersMade + 1
                 /\ timers' = timers \cup {timersMade + 1}

\* handleDisconnect that drops the handle without calling close()
handleDisconnectNoClose ==
    IF closing
    THEN UNCHANGED <<device, pollTimer, prevButtonState, opened, closeCalls,
                     listeners, timers, timersMade, statuses, closeThrew>>
    ELSE /\ UNCHANGED closeCalls
         /\ closeThrew' = FALSE
         /\ prevButtonState' = FALSE
         /\ waitForDevice(Append(statuses, "disconnected"))

\* handleDisconnect that leaves prevButtonState as it was
handleDisconnectKeepsButton ==
    IF closing
    THEN UNCHANGED <<device, pollTimer, prevButtonState, opened, closeCalls,
                     listeners, timers, timersMade, statuses, closeThrew>>
    ELSE /\ closeCalls' = IF device # NULL
                          THEN [closeCalls EXCEPT ![device] = @ + 1]
                          ELSE closeCalls
         /\ closeThrew' \in (IF device # NULL THEN BOOLEAN ELSE {FALSE})
         /\ UNCHANGED prevButtonState
         /\ waitForDevice(Append(statuses, "disconnected"))

\* handleDisconnect without the try/catch around device.close()
handleDisconnectThrowEscapes ==
    IF closing
    THEN UNCHANGED <<device, pollTimer, prevButtonState, opened, closeCalls,
                     listeners, timers, timersMade, statuses, closeThrew>>
    ELSE /\ closeCalls' = IF device # NULL
                          THEN [closeCalls EXCEPT ![device] = @ + 1]
                          ELSE closeCalls
         /\ closeThrew' \in (IF device # NULL THEN BOOLEAN ELSE {FALSE})
         /\ IF closeThrew'
            THEN UNCHANGED <<device, pollTimer, prevButtonState, opened, listeners,
                             timers, timersMade, statuses>>
            ELSE /\ prevButtonState' = FALSE
                 /\ waitForDevice(Append(statuses, "disconnected"))

\* handleDisconnect that does not emit the 'disconnected' status
handleDisconnectNoStatus ==
    IF closing
    THEN UNCHANGED <<device, pollTimer, prevButtonState, opened, closeCalls,
                     listeners, timers, timersMade, statuses, closeThrew>>
    ELSE /\ closeCalls' = IF device # NULL
                          THEN [closeCalls EXCEPT ![device] = @ + 1]
                          ELSE closeCalls
         /\ closeThrew' \in (IF device # NULL THEN BOOLEAN ELSE {FALSE})
         /\ prevButtonState' = FALSE
         /\ waitForDevice(statuses)

\* handleDisconnect()
handleDisconnect ==
    IF closing
    THEN UNCHANGED <<device, pollTimer, prevButtonState, opened, closeCalls,
                     listeners, timers, timersMade, statuses, closeThrew>>
    ELSE /\ closeCalls' = IF device # NULL
                          THEN [closeCalls EXCEPT ![device] = @ + 1]
                          ELSE closeCalls
         /\ closeThrew' \in (IF device # NULL THEN BOOLEAN ELSE {FALSE})
         /\ prevButtonState' = FALSE
         /\ waitForDevice(Append(statuses, "disconnected"))

\* ---------------------------------------------------------------- actions
\* line 155: the constructor's call of waitForDevice()
Start ==
    /\ ~started
    /\ HandleBudget
    /\ started' = TRUE
    /\ waitForDevice(statuses)
    /\ last' = [op |-> "start", h |-> NULL, data |-> << >>]
    /\ UNCHANGED <<prevButtonState, closing, closeCalls, sent, sentBy, doneCalls,
                   hid, appeared, lateCalls, errored>>
    /\ closeThrew' = FALSE

\* the interval callback without clearInterval after a successful open
TickKeepsTimer(t) ==
    /\ t \in timers
    /\ closing \/ HandleBudget
    /\ IF closing
       THEN /\ timers' = timers \ {pollTimer}
            /\ pollTimer' = NULL
            /\ UNCHANGED <<device, opened, listeners, statuses>>
       ELSE LET dev == connectDevice IN
            /\ device' = dev
            /\ opened' = IF dev # NULL THEN dev ELSE opened
            /\ IF dev # NULL
               THEN /\ UNCHANGED <<timers, pollTimer>>
                    /\ statuses' = Append(statuses, "connected")
                    /\ startEventLoop(dev)
               ELSE UNCHANGED <<timers, pollTimer, statuses, listeners>>
    /\ last' = [op |-> "tick", h |-> NULL, data |-> << >>]
    /\ UNCHANGED <<prevButtonState, closing, started, closeCalls, timersMade,
                   sent, sentBy, doneCalls, hid, appeared, lateCalls, errored>>
    /\ closeThrew' = FALSE

\* the interval callback that re-emits the waiting status after a failed attempt
TickReemitsWaiting(t) ==
    /\ t \in timers
    /\ closing \/ HandleBudget
    /\ IF closing
       THEN /\ timers' = timers \ {pollTimer}
            /\ pollTimer' = NULL
            /\ UNCHANGED <<device, opened, listeners, statuses>>
       ELSE LET dev == connectDevice IN
            /\ device' = dev
            /\ opened' = IF dev # NULL THEN dev ELSE opened
            /\ IF dev # NULL
               THEN /\ timers' = timers \ {pollTimer}
                    /\ pollTimer' = NULL
                    /\ statuses' = Append(statuses, "connected")
                    /\ startEventLoop(dev)
               ELSE /\ statuses' = Append(statuses, "waiting...")
                    /\ UNCHANGED <<timers, pollTimer, listeners>>
    /\ last' = [op |-> "tick", h |-> NULL, data |-> << >>]
    /\ UNCHANGED <<prevButtonState, closing, started, closeCalls, timersMade,
                   sent, sentBy, doneCalls, hid, appeared, lateCalls, errored>>
    /\ closeThrew' = FALSE

\* the callback of a one-shot timer (setTimeout) in place of the interval
TickOneShot(t) ==
    /\ t \in timers
    /\ closing \/ HandleBudget
    /\ IF closing
       THEN /\ timers' = timers \ {pollTimer, t}
            /\ pollTimer' = NULL
            /\ UNCHANGED <<device, opened, listeners, statuses>>
       ELSE LET dev == connectDevice IN
            /\ device' = dev
            /\ opened' = IF dev # NULL THEN dev ELSE opened
            /\ IF dev # NULL
               THEN /\ timers' = timers \ {pollTimer, t}
                    /\ pollTimer' = NULL
                    /\ statuses' = Append(statuses, "connected")
                    /\ startEventLoop(dev)
               ELSE /\ timers' = timers \ {t}
                    /\ UNCHANGED <<pollTimer, statuses, listeners>>
    /\ last' = [op |-> "tick", h |-> NULL, data |-> << >>]
    /\ UNCHANGED <<prevButtonState, closing, started, closeCalls, timersMade,
                   sent, sentBy, doneCalls, hid, appeared, lateCalls, errored>>
    /\ closeThrew' = FALSE

\* the setInterval callback of waitForDevice, for a scheduled interval t
Tick(t) ==
    /\ t \in timers
    /\ closing \/ HandleBudget
    /\ IF closing
       THEN /\ timers' = timers \ {pollTimer}
            /\ pollTimer' = NULL
            /\ UNCHANGED <<device, opened, listeners, statuses>>
       ELSE LET dev == connectDevice IN
            /\ device' = dev
            /\ opened' = IF dev # NULL THEN dev ELSE opened
            /\ IF dev # NULL
               THEN /\ timers' = timers \ {pollTimer}
                    /\ pollTimer' = NULL
                    /\ statuses' = Append(statuses, "connected")
                    /\ startEventLoop(dev)
               ELSE UNCHANGED <<timers, pollTimer, statuses, listeners>>
    /\ last' = [op |-> "tick", h |-> NULL, data |-> << >>]
    /\ UNCHANGED <<prevButtonState, closing, started, closeCalls, timersMade,
                   sent, sentBy, doneCalls, hid, appeared, lateCalls, errored>>
    /\ closeThrew' = FALSE

\* the 'data' listener of handle h, called with report data
DataOn(h, data) ==
    LET r == parseReport(data, prevButtonState) IN
    /\ Len(sent) + Len(r.msgs) <= MaxSent
    /\ sent' = sent \o r.msgs
    /\ sentBy' = sentBy \o [i \in 1..Len(r.msgs) |-> h]
    /\ prevButtonState' = r.button
    /\ last' = [op |-> "data", h |-> h, data |-> data]
    /\ UNCHANGED <<device, pollTimer, closing, started, opened, closeCalls, listeners,
                   timers, timersMade, statuses, doneCalls, hid, appeared, errored>>
    /\ closeThrew' = FALSE

\* the 'error' listener of handle h
ErrorOn(h) ==
    /\ closing \/ HandleBudget
    /\ handleDisconnect
    /\ errored' = errored \cup {h}
    /\ last' = [op |-> "error", h |-> h, data |-> << >>]
    /\ UNCHANGED <<closing, started, sent, sentBy, doneCalls, hid, appeared>>

\* a handle's stream is live from its open until its close() or its error
IsLive(h) == IsOpen(h) /\ h \notin errored

\* a live handle delivers a report / reports its stream error
Data(h, data) ==
    h \in listeners /\ IsLive(h) /\ DataOn(h, data) /\ UNCHANGED lateCalls
Error(h) ==
    h \in listeners /\ IsLive(h) /\ ErrorOn(h) /\ UNCHANGED lateCalls

\* the close handler without clearInterval
CloseKeepsTimer ==
    /\ started
    /\ doneCalls < MaxClose
    /\ closing' = TRUE
    /\ UNCHANGED <<timers, pollTimer>>
    /\ closeCalls' = IF device # NULL
                     THEN [closeCalls EXCEPT ![device] = @ + 1]
                     ELSE closeCalls
    /\ closeThrew' \in (IF device # NULL THEN BOOLEAN ELSE {FALSE})
    /\ device' = NULL
    /\ doneCalls' = doneCalls + 1
    /\ last' = [op |-> "close", h |-> NULL, data |-> << >>]
    /\ UNCHANGED <<prevButtonState, started, opened, listeners, timersMade,
                   statuses, sent, sentBy, hid, appeared, lateCalls, errored>>

\* the close handler without device = null after close()
CloseKeepsDevice ==
    /\ started
    /\ doneCalls < MaxClose
    /\ closing' = TRUE
    /\ timers' = IF pollTimer # NULL THEN timers \ {pollTimer} ELSE timers
    /\ pollTimer' = NULL
    /\ closeCalls' = IF device # NULL
                     THEN [closeCalls EXCEPT ![device] = @ + 1]
                     ELSE closeCalls
    /\ closeThrew' \in (IF device # NULL THEN BOOLEAN ELSE {FALSE})
    /\ UNCHANGED device
    /\ doneCalls' = doneCalls + 1
    /\ last' = [op |-> "close", h |-> NULL, data |-> << >>]
    /\ UNCHANGED <<prevButtonState, started, opened, listeners, timersMade,
                   statuses, sent, sentBy, hid, appeared, lateCalls, errored>>

\* node.on('close', done)
Close ==
    /\ started
    /\ doneCalls < MaxClose
    /\ closing' = TRUE
    /\ timers' = IF pollTimer # NULL THEN timers \ {pollTimer} ELSE timers
    /\ pollTimer' = NULL
    /\ closeCalls' = IF device # NULL
                     THEN [closeCalls EXCEPT ![device] = @ + 1]
                     ELSE closeCalls
    /\ closeThrew' \in (IF device # NULL THEN BOOLEAN ELSE {FALSE})
    /\ device' = NULL
    /\ doneCalls' = doneCalls + 1
    /\ last' = [op |-> "close", h |-> NULL, data |-> << >>]
    /\ UNCHANGED <<prevButtonState, started, opened, listeners, timersMade,
                   statuses, sent, sentBy, hid, appeared, lateCalls, errored>>

\* the dial is plugged, unplugged, or becomes (un)openable
Plug(v) ==
    /\ v \in HidOutcomes /\ v # hid
    /\ hid' = v
    /\ appeared' = (appeared \/ v # "absent")
    /\ UNCHANGED <<device, pollTimer, prevButtonState, closing, started, opened,
                   closeCalls, listeners, timers, timersMade, statuses, sent, sentBy,
                   doneCalls, lateCalls, errored, closeThrew, last>>

Next ==
    \/ Start
    \/ \E t \in timers : Tick(t)
    \/ \E h \in Handles, data \in Reports : Data(h, data)
    \/ \E h \in Handles : Error(h)
    \/ Close
    \/ \E v \in HidOutcomes : Plug(v)

Spec == Init /\ [][Next]_vars

\* The retry interval keeps firing while it is scheduled.
LiveSpec == Init /\ [][Next]_vars /\ WF_vars(\E t \in timers : Tick(t))

\* Callbacks of a handle that arrive after close() was called on it or after
\* its stream error.  The HID library is not part of the repository: Spec
\* takes it to silence such a handle, SpecLate does not.
LateData(h, data) ==
    /\ h \in listeners /\ ~IsLive(h)
    /\ lateCalls < MaxLate
    /\ lateCalls' = lateCalls + 1
    /\ DataOn(h, data)
LateError(h) ==
    /\ h \in listeners /\ ~IsLive(h)
    /\ lateCalls < MaxLate
    /\ lateCalls' = lateCalls + 1
    /\ ErrorOn(h)

NextLate ==
    \/ Next
    \/ \E h \in Handles, data \in Reports : LateData(h, data)
    \/ \E h \in Handles : LateError(h)

SpecLate == Init /\ [][NextLate]_vars

\* parseReport over every value of the two rotation bytes: the node starts and,
\* if it connected, its handle delivers one report.
DecodeNext ==
    \/ Start
    \/ /\ last.op = "start"
       /\ \E b1 \in {0, 1}, b2 \in 0..255, b3 \in 0..255 : Data(1, <<1, b1, b2, b3>>)

DecodeSpec == Init /\ [][DecodeNext]_vars

\* ------------------------------------------------------------------ claims
LastStatus == IF statuses = << >> THEN "" ELSE statuses[Len(statuses)]
Waiting   == started /\ ~closing /\ device = NULL /\ pollTimer # NULL /\ pollTimer \in timers
SomeError == \E h \in Handles : Error(h)
\* the step is the 'data' listener of a live handle run on the report last'.data
DataStep  == last'.op = "data" /\ Data(last'.h, last'.data)

\* C1: in every reachable state at most one handle that connectDevice returned
\* is still unclosed, so no handle is opened while an earlier one is open.
C1_AtMostOneOpenHandle == Cardinality(OpenHandles) <= 1

\* a second handle is open after the first one was closed
C1_Witness == opened >= 2 /\ IsOpen(opened) /\ closeCalls[1] = 1

\* C2: close() is called on every handle at most once; a handle that is still
\* open is the one `device` refers to (no reference is overwritten or dropped);
\* and once a handle's stream has errored, or shutdown was requested, close()
\* has been called on it exactly once.
C2_ClosedExactlyOnce ==
    \A h \in Handles :
        /\ closeCalls[h] <= 1
        /\ IsOpen(h) => device = h
        /\ (h \in 1..opened /\ (closing \/ h \in errored)) => closeCalls[h] = 1

\* one handle was closed after its stream error, a later one by the close handler
C2_Witness ==
    /\ closing /\ opened = 2
    /\ 1 \in errored /\ 2 \notin errored
    /\ closeCalls[1] = 1 /\ closeCalls[2] = 1

\* C3: once closing is true no callback calls node.status or node.send again,
\* whichever callback is delivered (a tick, a report, an error of any handle).
C3_SilentAfterClose == [][closing => (statuses' = statuses /\ sent' = sent)]_vars

\* C4: when the close handler has run no interval is scheduled and no handle
\* is open, and from then on no timer is armed, no handle is opened and
\* closing stays true.
C4_ShutdownIsFinal ==
    /\ [](closing => (timers = {} /\ pollTimer = NULL /\ device = NULL /\ OpenHandles = {}))
    /\ [][closing => (closing' /\ opened' = opened /\ timersMade' = timersMade)]_vars

\* shutdown was requested once from Connected and once more afterwards
C4_Witness == closing /\ doneCalls = 2 /\ opened >= 1 /\ errored = {}

\* C5: a close handler that runs when closing is already true changes none of
\* device, pollTimer, closing, prevButtonState, calls close() on no handle,
\* emits no status and no event, and invokes done() once more.
C5_CloseIdempotent ==
    [][(closing /\ Close) =>
          /\ UNCHANGED <<device, pollTimer, closing, prevButtonState>>
          /\ UNCHANGED <<closeCalls, timers, statuses, sent>>
          /\ doneCalls' = doneCalls + 1]_vars

\* the close handler has run twice, the first time with a handle open
C5_Witness == last.op = "close" /\ doneCalls = 2 /\ opened >= 1 /\ closeCalls[opened] = 1

C7_WaitingWhileAbsent ==
    (started /\ ~appeared /\ ~closing) =>
        /\ statuses = <<"waiting...">>
        /\ OpenHandles = {} /\ device = NULL
        /\ pollTimer # NULL /\ timers = {pollTimer}

\* a tick has run in Waiting with no dial present
C7_Witness == started /\ ~appeared /\ ~closing /\ last.op = "tick"

\* C8: if from some point on the dial is present and openable, shutdown is not
\* requested and the model still has a handle to hand out, then from Waiting,
\* with the interval firing, the node comes to hold an open handle and the
\* last status is 'connected'.
C8_RetryConnects ==
    (<>[](hid = "ok" /\ ~closing /\ opened < MaxHandles)) =>
        [](Waiting => <>(device # NULL /\ IsOpen(device) /\ LastStatus = "connected"))

\* a tick connected the node after an earlier handle was lost to a stream error
C8_Witness ==
    /\ last.op = "tick" /\ device = 2 /\ IsOpen(2)
    /\ 1 \in errored /\ LastStatus = "connected"

IsButtonMsg(m) == m.topic = "button"
ButtonIdx(h) == {i \in 1..Len(sent) : IsButtonMsg(sent[i]) /\ sentBy[i] = h}

\* C9: a valid report sends a button message iff its pressed bit differs from
\* prevButtonState, and leaves prevButtonState equal to that bit; the button
\* messages of one handle alternate between 'pressed' and 'released'.
C9_ButtonEdgeTriggered ==
    /\ [][(DataStep /\ Len(last'.data) >= 4 /\ last'.data[1] = 1) =>
            LET bit == (last'.data[2] % 2 = 1)
                new == SubSeq(sent', Len(sent) + 1, Len(sent'))
                btn == {i \in 1..Len(new) : IsButtonMsg(new[i])}
            IN  /\ (btn # {}) <=> (bit # prevButtonState)
                /\ Cardinality(btn) <= 1
                /\ \A i \in btn : new[i].payload = IF bit THEN "pressed" ELSE "released"
                /\ prevButtonState' = bit]_vars
    /\ [](\A h \in Handles : \A i, j \in ButtonIdx(h) :
            (i < j /\ ~\E k \in ButtonIdx(h) : i < k /\ k < j)
                => sent[i].payload # sent[j].payload)

\* one handle sent 'pressed' and then 'released'
C9_Witness ==
    /\ Len(sent) = 2 /\ sentBy[1] = sentBy[2]
    /\ sent[1] = [topic |-> "button", payload |-> "pressed"]
    /\ sent[2] = [topic |-> "button", payload |-> "released"]

\* C10: a report shorter than 4 bytes, or whose first byte is not 1, sends
\* nothing and leaves prevButtonState, device, pollTimer, closing and the
\* statuses unchanged.
C10_InvalidReportIgnored ==
    [][(DataStep /\ (Len(last'.data) < 4 \/ last'.data[1] # 1)) =>
          /\ UNCHANGED <<sent, prevButtonState>>
          /\ UNCHANGED <<device, pollTimer, closing, statuses, timers, closeCalls>>]_vars

\* a 4-byte report with report id 2 was delivered while the button was held
C10_Witness ==
    /\ last.op = "data" /\ last.data = <<2, 0, 1, 0>>
    /\ prevButtonState /\ Len(sent) = 1

IsRotationMsg(m) == m.topic = "rotation"

\* C11: for a valid report let v = byte2 + 256 * byte3 and r = v if v < 32768,
\* else v - 65536; the rotation messages it sends are none if r = 0, one
\* 'clockwise' if r > 0 and one 'counter-clockwise' if r < 0.
C11_RotationSign ==
    [][(DataStep /\ Len(last'.data) >= 4 /\ last'.data[1] = 1) =>
          LET v   == last'.data[3] + 256 * last'.data[4]
              r   == IF v < 32768 THEN v ELSE v - 65536
              new == SubSeq(sent', Len(sent) + 1, Len(sent'))
              rot == SelectSeq(new, IsRotationMsg)
          IN  rot = IF r = 0 THEN << >>
                    ELSE IF r > 0
                         THEN << [topic |-> "rotation", payload |-> "clockwise"] >>
                         ELSE << [topic |-> "rotation", payload |-> "counter-clockwise"] >>]_vars

\* the raw value 32768 was decoded as counter-clockwise
C11_Witness ==
    /\ last.op = "data" /\ last.data = <<1, 0, 0, 128>>
    /\ sent = << [topic |-> "rotation", payload |-> "counter-clockwise"] >>

\* C12: node.send is only ever appended to (what an earlier report sent stays
\* before what a later one sends), and the messages of one report are its
\* button message, if any, followed by its rotation message, if any.
C12_SentInDecoderOrder ==
    [][/\ Len(sent') >= Len(sent)
       /\ SubSeq(sent', 1, Len(sent)) = sent
       /\ DataStep =>
             LET new == SubSeq(sent', Len(sent) + 1, Len(sent'))
             IN  new = SelectSeq(new, IsButtonMsg) \o SelectSeq(new, IsRotationMsg)]_vars

\* the report [1,1,5,0] sent 'pressed' and then 'clockwise'
C12_Witness ==
    /\ last.op = "data" /\ last.data = <<1, 1, 5, 0>>
    /\ sent = << [topic |-> "button", payload |-> "pressed"],
                 [topic |-> "rotation", payload |-> "clockwise"] >>

\* C13: among the button messages of one handle (one session) the first is
\* 'pressed', and every 'released' has a 'pressed' of that handle before it.
C13_FirstButtonIsPressed ==
    \A h \in Handles : \A i \in ButtonIdx(h) :
        /\ (\A j \in ButtonIdx(h) : i <= j) => sent[i].payload = "pressed"
        /\ sent[i].payload = "released" =>
              \E j \in ButtonIdx(h) : j < i /\ sent[j].payload = "pressed"

\* the button was pressed in one session and again in the next one
C13_Witness ==
    /\ Len(sent) = 2 /\ sentBy = <<1, 2>>
    /\ sent[1] = [topic |-> "button", payload |-> "pressed"]
    /\ sent[2] = [topic |-> "button", payload |-> "pressed"]

\* C14: at most one interval is scheduled at any time and pollTimer refers to
\* it, also when handleDisconnect runs while the node is already Waiting.
C14_SingleRetryTimer ==
    /\ Cardinality(timers) <= 1
    /\ \A t \in timers : t = pollTimer

\* C15: an 'error' callback of a handle that was already torn down (closed,
\* or errored before) emits no status, arms no timer and closes no handle.
C15_DisconnectOncePerHandle ==
    [][(\E h \in Handles : LateError(h)) =>
          UNCHANGED <<statuses, timers, timersMade, pollTimer, closeCalls, device>>]_vars

\* C16: an attempt whose enumeration or open throws leaves the node exactly
\* where an attempt that finds no dial leaves it: no handle is opened, and the
\* state and statuses after the callback are the same function of the state
\* before it for "absent", "enumfail" and "openfail" (Waiting, timer armed).
C16_OpenFailureIsNotFound ==
    [][(hid # "ok" /\ ~closing) =>
          /\ (Start \/ SomeError \/ \E t \in timers : Tick(t)) =>
                /\ device' = NULL /\ opened' = opened /\ listeners' = listeners
                /\ pollTimer' # NULL /\ pollTimer' \in timers'
          /\ Start =>
                /\ statuses' = Append(statuses, "waiting...")
                /\ pollTimer' = timersMade + 1 /\ timers' = timers \cup {pollTimer'}
          /\ SomeError =>
                /\ statuses' = statuses \o <<"disconnected", "waiting...">>
                /\ pollTimer' = timersMade + 1 /\ timers' = timers \cup {pollTimer'}
          /\ (\E t \in timers : Tick(t)) =>
                UNCHANGED <<statuses, pollTimer, timers, timersMade>>]_vars

\* the dial was found but could not be reopened after a stream error
C16_Witness ==
    /\ hid = "openfail" /\ last.op = "error" /\ Waiting
    /\ statuses = <<"connected", "disconnected", "waiting...">>

\* C17: when device.close() throws, handleDisconnect still drops the handle,
\* resets prevButtonState, emits 'disconnected' and resumes discovery (an
\* immediate attempt, then the interval), and the close handler still drops the
\* handle, clears the timer and calls done(): what a close() that returns
\* normally leads to.
C17_CloseFailureSuppressed ==
    [][closeThrew' =>
          /\ SomeError =>
                /\ closeCalls' = [closeCalls EXCEPT ![device] = @ + 1]
                /\ device' # device /\ prevButtonState' = FALSE
                /\ IF hid = "ok"
                   THEN /\ statuses' = statuses \o <<"disconnected", "connected">>
                        /\ device' = opened + 1 /\ opened' = opened + 1
                        /\ pollTimer' = NULL /\ timers' = {}
                   ELSE /\ statuses' = statuses \o <<"disconnected", "waiting...">>
                        /\ device' = NULL /\ opened' = opened
                        /\ pollTimer' # NULL /\ timers' = {pollTimer'}
          /\ Close =>
                /\ closeCalls' = [closeCalls EXCEPT ![device] = @ + 1]
                /\ device' = NULL /\ pollTimer' = NULL /\ timers' = {}
                /\ closing' /\ doneCalls' = doneCalls + 1
                /\ UNCHANGED <<statuses, sent, prevButtonState>>]_vars

\* close() threw in handleDisconnect and the node is Waiting again
C17_Witness ==
    /\ closeThrew /\ last.op = "error" /\ Waiting
    /\ closeCalls[last.h] = 1 /\ LastStatus = "waiting..."

\* C18: every step that opens a handle and emits 'connected' (the first
\* connect, a reconnect from a tick, a reconnect from handleDisconnect) ends
\* with prevButtonState = FALSE, whatever reports, errors and ticks came before.
C18_ButtonFalseAtSessionStart ==
    [][(opened' = opened + 1 /\ device' = opened' /\
        statuses' # statuses /\ LastStatus' = "connected") =>
          prevButtonState' = FALSE]_vars

\* a session ended with the button held down, and a tick opened the next one
C18_Witness ==
    /\ last.op = "tick" /\ device = 2 /\ LastStatus = "connected"
    /\ sent = << [topic |-> "button", payload |-> "pressed"] >> /\ sentBy = <<1>>
    /\ prevButtonState = FALSE

\* the statuses are ordered, `afterDisc` being what may follow 'disconnected'
StatusOrder(afterDisc) ==
    /\ statuses # << >> => statuses[1] \in {"waiting...", "connected"}
    /\ \A i \in 2..Len(statuses) :
          /\ statuses[i] = "disconnected" => statuses[i-1] = "connected"
          /\ statuses[i-1] = "disconnected" => statuses[i] \in afterDisc
          /\ statuses[i-1] = "waiting..." => statuses[i] = "connected"
          /\ statuses[i] # statuses[i-1]

\* a step that emits 'disconnected' starts with no interval scheduled, and an
\* interval it schedules comes with the 'waiting...' that follows 'disconnected'
DisconnectedBeforeTimer ==
    [][(Len(statuses') > Len(statuses) /\ statuses'[Len(statuses) + 1] = "disconnected") =>
          /\ timers = {}
          /\ timers' # {} => statuses' = statuses \o <<"disconnected", "waiting...">>]_vars

StateConnected ==
    /\ device # NULL /\ IsOpen(device)
    /\ timers = {} /\ pollTimer = NULL
    /\ LastStatus = "connected"

\* the Waiting state: no handle is held, the interval pollTimer is scheduled,
\* and the last status is 'waiting...'
StateWaiting ==
    /\ device = NULL
    /\ pollTimer # NULL /\ timers = {pollTimer}
    /\ LastStatus = "waiting..."

\* C20: between callbacks, once started and while closing is false, the node
\* is in exactly one of Connected and Waiting, and an open handle never
\* coexists with a scheduled interval.
C20_StatusMirrorsState ==
    (started /\ ~closing) =>
        /\ StateConnected \/ StateWaiting
        /\ ~(StateConnected /\ StateWaiting)
        /\ ~(OpenHandles # {} /\ timers # {})

\* Connected again after a disconnect that went through Waiting
C20_Witness ==
    /\ started /\ ~closing /\ StateConnected
    /\ statuses = <<"connected", "disconnected", "waiting...", "connected">>

====
